---- MODULE Spec2Model ----
(***************************************************************************)
(* Voice-to-todo app (src/app/index.tsx): the recording controller, the    *)
(* capture back ends (expo-av on native, MediaRecorder in the browser),    *)
(* the transcription hand-off and the task store that mirrors the remote   *)
(* persistence service.                                                    *)
(*                                                                         *)
(* The component is a single-threaded React function component.  Every     *)
(* `await` is a suspension point; an action of this module is the code     *)
(* that runs between two suspension points of one handler.  State setters  *)
(* issued in one such run are committed together, and a user event sees    *)
(* the handlers of the last committed render.                              *)
(***************************************************************************)
EXTENDS Integers, Sequences, FiniteSets, TLC

\* ------------------------------------------------------------------ bounds
MaxStarts == 2      \* startRecording invocations in one run
MaxClock == 1       \* last millisecond the wall clock reaches
MaxPayload == 1     \* largest recorded audio length (bytes)
MaxDuration == 1    \* largest elapsed-seconds value the tick timers reach
MaxOps == 3         \* task-store requests issued from the task list in one run
MaxToggleOps == 4   \* the same, in a run of creates and toggles only

\* --------------------------------------------------------------- constants
NoUser == "null"
NoSession == 0
NoTask == -1
Users == {"u1"}
Sessions == 1..MaxStarts

\* Recognised texts, as sequences of characters; " " is white space.
Texts == {<< >>, <<" ", " ">>, <<"a">>, <<" ", "b", " ">>}

VARIABLES
  platform,              \* Platform.OS: "web" or "native", fixed for a run
  mediaDevices,          \* navigator.mediaDevices.getUserMedia exists (web)
  mounted,               \* the component has not been disposed of
  clock,                 \* Date.now(), in milliseconds
  user, isLoading,       \* React state fed by the auth subscription
  tasks,                 \* React state: the local ordered task collection
  remote,                \* rows of the remote persistence service
  isRecording, isTranscribing,
  recording,             \* React state: the Audio.Recording handle, or null
  recordingDuration,
  recordingTimer,        \* recordingTimer.current: an interval id, or null
  timers,                \* interval timers that are scheduled
  currentMediaRecorder,  \* window.currentMediaRecorder
  sess,                  \* one record per startRecording invocation
  alert,                 \* title of the last Alert.alert shown, if any
  reqs,                  \* task-store requests awaiting the persistence service
  nOps,                  \* task-store requests issued from the task list so far
  writeFailed,           \* history: some remote write has been rejected
  editingTask,           \* React state: id of the task being edited, or null
  editTitle, editDeadline, editModalVisible,
  disabledPress          \* flips on every press of the disabled record control

ctrl == <<isRecording, isTranscribing, recording, recordingDuration,
          recordingTimer, timers, currentMediaRecorder>>
store == <<tasks, remote>>
edit == <<editingTask, editTitle, editDeadline, editModalVisible>>
ops == <<reqs, nOps, writeFailed>>
auth == <<user, isLoading>>
env == <<platform, mediaDevices, mounted>>
obs == <<alert, disabledPress>>
vars == <<env, clock, auth, store, ctrl, sess, obs, ops, edit>>

\* ----------------------------------------------------------- pure helpers
IsSpace(c) == c = " "

RECURSIVE TrimStart(_)
TrimStart(s) ==
  IF s # << >> /\ IsSpace(Head(s)) THEN TrimStart(Tail(s)) ELSE s

RECURSIVE TrimEnd(_)
TrimEnd(s) ==
  IF s # << >> /\ IsSpace(s[Len(s)]) THEN TrimEnd(SubSeq(s, 1, Len(s) - 1)) ELSE s

\* String.prototype.trim
Trim(s) == TrimEnd(TrimStart(s))

\* Length of the base64 text of n bytes (readAsStringAsync / readAsDataURL).
Base64Len(n) == 4 * ((n + 2) \div 3)

\* The record handed to blink.db.tasks.create.  The draft carries no deadline
\* key at all ("undef").  Date.now() and the two `new Date()` are read in one
\* synchronous run and are taken as one instant.
NewTaskDraft(title, uid, now) ==
  [id |-> now, user_id |-> uid, title |-> title, completed |-> 0,
   deadline |-> "undef", created_at |-> now, updated_at |-> now]

\* The row the persistence service stores and returns for a created record:
\* columns the draft left out come back as null.
RemoteRow(draft) ==
  [draft EXCEPT !.deadline = IF @ = "undef" THEN "null" ELSE @]

\* The new record put in front of the collection of the first render.
PrependToFirstRender(newTask, prev) == <<newTask>>

\* setTasks(prev => [newTask, ...prev])
Prepend(newTask, prev) == <<newTask>> \o prev

\* ------------------------------------------------------------------- init
FreshSession ==
  [pc |-> "unused", held |-> FALSE, perm |-> "unknown", len |-> 0,
   text |-> << >>, title |-> << >>, at |-> 0, user |-> NoUser]

\* A session whose handlers have all returned: its locals are gone; what is
\* left is whether its microphone resource is still held.
DoneSession(held) == [FreshSession EXCEPT !.pc = "done", !.held = held]

Init ==
  /\ platform \in {"web", "native"}
  /\ mediaDevices \in BOOLEAN
  /\ (platform = "native" => mediaDevices = FALSE)
  /\ mounted = TRUE
  /\ clock = 0
  /\ user = NoUser
  /\ isLoading = TRUE
  /\ tasks = << >>
  /\ remote = << >>
  /\ isRecording = FALSE
  /\ isTranscribing = FALSE
  /\ recording = NoSession
  /\ recordingDuration = 0
  /\ recordingTimer = NoSession
  /\ timers = {}
  /\ currentMediaRecorder = NoSession
  /\ sess = [i \in Sessions |-> FreshSession]
  /\ alert = "none"
  /\ reqs = {}
  /\ nOps = 0
  /\ writeFailed = FALSE
  /\ editingTask = NoTask
  /\ editTitle = << >>
  /\ editDeadline = ""
  /\ editModalVisible = FALSE
  /\ disabledPress = FALSE

\* The main view (and with it every control) is rendered only while the
\* component is mounted, and only past the two early returns.
UIVisible == mounted /\ ~isLoading /\ user # NoUser

\* The edit modal is a page sheet over the main view: while it is shown the
\* controls of the main view are out of reach.
MainControls == UIVisible /\ ~editModalVisible
ModalControls == UIVisible /\ editModalVisible

\* ------------------------------------------------------------ environment
\* Date.now() / new Date(): a read returns the time of the previous read or a
\* later one.  `clock` is the time of the latest read; only the order and the
\* equality of timestamps are observable, so a read advances it by at most 1.
ClockReads == {t \in clock..(clock + 1) : t <= MaxClock}

\* The effect that subscribes runs once, after the first render (its
\* dependency list is empty), so the loadTasks its callback calls is the one
\* of the first render, and the `user` that one reads is the initial
\* useState value.
EffectUser == NoUser

\* loadTasks, run with `u` as its `user`: `if (!user?.id) return`, else one
\* list request for the tasks of u.
LoadTasks(u) ==
  IF u = NoUser THEN {}
  ELSE {[rid |-> 0, kind |-> "list", id |-> 0, title |-> << >>, completed |-> 0,
         deadline |-> "undef", at |-> 0, user |-> u, written |-> FALSE]}

\* blink.db.tasks.list({ where: { user_id }, orderBy: { created_at: 'desc' } }):
\* l holds exactly the rows of uid, latest created_at first; rows of equal
\* created_at come in either order.
IsListOf(l, rows, uid) ==
  LET own == {k \in 1..Len(rows) : rows[k].user_id = uid} IN
  /\ Len(l) = Cardinality(own)
  /\ \A j, k \in 1..Len(l) : j < k => l[j].created_at >= l[k].created_at
  /\ \E p \in [1..Len(l) -> own] :
       /\ \A j, k \in 1..Len(l) : j # k => p[j] # p[k]
       /\ \A k \in 1..Len(l) : l[k] = rows[p[k]]

\* What React runs when the component is disposed of: the value the effect
\* callback returned.  The callback calls initializeApp() and returns nothing;
\* `unsubscribe` is only the value of the promise initializeApp() returns, and
\* that promise is dropped.
EffectCleanup == "none"

\* The auth service still holds the callback.
Subscribed == mounted \/ EffectCleanup # "unsubscribe"

\* The component is disposed of.  Handlers that are suspended on an await,
\* recorder callbacks and intervals go on running; after disposal React drops
\* what the setters are given, and the state variables then stand for the
\* values the setters were last called with (nothing is rendered from them).
Unmount ==
  /\ mounted
  /\ mounted' = FALSE
  /\ UNCHANGED <<platform, mediaDevices>>
  /\ UNCHANGED <<clock, auth, store, ctrl, sess, obs, ops, edit>>

\* The callback as it would be if it emptied the collection ahead of the
\* fetch: setTasks([]) before loadTasks().
AuthEmitClearsTasks(u, l) ==
  /\ Subscribed
  /\ user' = u
  /\ isLoading' = l
  /\ tasks' = IF u # NoUser THEN << >> ELSE tasks
  /\ remote' = remote
  /\ reqs' = reqs \cup (IF u # NoUser THEN LoadTasks(EffectUser) ELSE {})
  /\ UNCHANGED <<nOps, writeFailed>>
  /\ UNCHANGED <<env, clock, ctrl, sess, obs, edit>>

\* The callback given to blink.auth.onAuthStateChanged: setUser, setIsLoading,
\* and loadTasks() if a user came.  No list request is ever pending, so the
\* continuation of loadTasks (setTasks(userTasks)) has no step of its own.
AuthEmit(u, l) ==
  /\ Subscribed
  /\ user' = u
  /\ isLoading' = l
  /\ reqs' = reqs \cup (IF u # NoUser THEN LoadTasks(EffectUser) ELSE {})
  /\ UNCHANGED <<nOps, writeFailed>>
  /\ UNCHANGED <<env, clock, store, ctrl, sess, obs, edit>>

\* ------------------------------------------------------- record control
\* The control without its `disabled` attribute.
RecordButtonNeverDisabled == IF isRecording THEN "stop" ELSE "start"

\* onPress={isRecording ? stopRecording : startRecording}
\* disabled={isTranscribing}
RecordButtonTarget ==
  IF isTranscribing THEN "disabled"
  ELSE IF isRecording THEN "stop" ELSE "start"

UnusedSessions == {i \in Sessions : sess[i].pc = "unused"}
NextSession == CHOOSE i \in UnusedSessions : \A j \in UnusedSessions : i <= j

\* A press while the control is disabled reaches no handler.
PressDisabled ==
  /\ MainControls
  /\ RecordButtonTarget = "disabled"
  /\ disabledPress' = ~disabledPress
  /\ UNCHANGED <<env, clock, auth, store, ctrl, sess, alert, ops, edit>>

\* --------------------------------------------------------- startRecording
\* startRecording up to its first await.
StartRecording ==
  /\ MainControls
  /\ RecordButtonTarget = "start"
  /\ UnusedSessions # {}
  /\ LET i == NextSession IN
       IF platform = "web" /\ ~mediaDevices
       THEN /\ sess' = [sess EXCEPT ![i] = DoneSession(FALSE)]
            /\ alert' = "Not Supported"
       ELSE /\ sess' = [sess EXCEPT ![i].pc = "perm", ![i].user = user]
            /\ alert' = alert
  /\ UNCHANGED <<env, clock, auth, store, ctrl, disabledPress, ops, edit>>

\* setIsRecording(true); setRecordingDuration(0); recordingTimer.current =
\* setInterval(...): the interval of session i is scheduled and the ref now
\* names it; an interval the ref named before stays scheduled.
BeginRecording(i) ==
  /\ isRecording' = TRUE
  /\ recordingDuration' = 0
  /\ timers' = timers \cup {i}
  /\ recordingTimer' = i

\* Browser: getUserMedia resolved with a stream.  `new MediaRecorder(stream)`
\* or `mediaRecorder.start()` may throw; the inner catch then reports
\* 'Permission Denied' and returns, the stream's tracks still live.
GetUserMediaResolve(i, recorderOk) ==
  /\ platform = "web"
  /\ sess[i].pc = "perm"
  /\ IF recorderOk
     THEN /\ sess' = [sess EXCEPT ![i].pc = "recording", ![i].held = TRUE,
                                  ![i].perm = "granted"]
          /\ BeginRecording(i)
          /\ currentMediaRecorder' = i
          /\ UNCHANGED <<isTranscribing, recording, alert>>
     ELSE /\ sess' = [sess EXCEPT ![i] = DoneSession(TRUE)]
          /\ alert' = "Permission Denied"
          /\ UNCHANGED ctrl
  /\ UNCHANGED <<env, clock, auth, store, disabledPress, ops, edit>>

\* Browser: getUserMedia rejected (permission denied, no device).
GetUserMediaReject(i) ==
  /\ platform = "web"
  /\ sess[i].pc = "perm"
  /\ sess' = [sess EXCEPT ![i] = DoneSession(FALSE)]
  /\ alert' = "Permission Denied"
  /\ UNCHANGED <<env, clock, auth, store, ctrl, disabledPress, ops, edit>>

\* The statuses Audio.requestPermissionsAsync resolves with.
PermissionStatuses == {"granted", "denied", "undetermined"}

\* Anything but a denial.
PermissionNotDenied(status) == status # "denied"

\* permission.status !== 'granted' returns; only 'granted' goes on.
PermissionGranted(status) == status = "granted"

\* Native: Audio.requestPermissionsAsync resolved.
PermissionResolve(i, status) ==
  /\ platform = "native"
  /\ sess[i].pc = "perm"
  /\ IF PermissionGranted(status)
     THEN /\ sess' = [sess EXCEPT ![i].pc = "mode", ![i].perm = status]
          /\ alert' = alert
     ELSE /\ sess' = [sess EXCEPT ![i] = DoneSession(FALSE)]
          /\ alert' = "Permission required"
  /\ UNCHANGED <<env, clock, auth, store, ctrl, disabledPress, ops, edit>>

\* Native: Audio.setAudioModeAsync resolved.
AudioModeResolve(i) ==
  /\ platform = "native"
  /\ sess[i].pc = "mode"
  /\ sess' = [sess EXCEPT ![i].pc = "open"]
  /\ UNCHANGED <<env, clock, auth, store, ctrl, obs, ops, edit>>

\* expo-av prepares one Audio.Recording at a time: createAsync rejects while
\* another recording is prepared and not yet unloaded.
NativeRecorderFree == \A j \in Sessions : ~sess[j].held

\* Native: Audio.Recording.createAsync resolved.
CreateAsyncResolve(i) ==
  /\ platform = "native"
  /\ sess[i].pc = "open"
  /\ NativeRecorderFree
  /\ sess' = [sess EXCEPT ![i].pc = "recording", ![i].held = TRUE]
  /\ recording' = i
  /\ BeginRecording(i)
  /\ UNCHANGED <<isTranscribing, currentMediaRecorder>>
  /\ UNCHANGED <<env, clock, auth, store, obs, ops, edit>>

\* Native: any of the three awaits of startRecording rejected; the outer
\* catch reports 'Failed to start recording'.
StartReject(i) ==
  /\ platform = "native"
  /\ sess[i].pc \in {"perm", "mode", "open"}
  /\ sess' = [sess EXCEPT ![i] = DoneSession(FALSE)]
  /\ alert' = "Failed to start recording"
  /\ UNCHANGED <<env, clock, auth, store, ctrl, disabledPress, ops, edit>>

\* The interval callback: setRecordingDuration(prev => prev + 1).
TimerTick(t) ==
  /\ t \in timers
  /\ recordingDuration < MaxDuration
  /\ recordingDuration' = recordingDuration + 1
  /\ UNCHANGED <<isRecording, isTranscribing, recording, recordingTimer, timers,
                 currentMediaRecorder>>
  /\ UNCHANGED <<env, clock, auth, store, sess, obs, ops, edit>>

\* ---------------------------------------------------------- stopRecording
\* if (recordingTimer.current) { clearInterval(...); ... = null }
ClearTimer ==
  /\ timers' = timers \ {recordingTimer}
  /\ recordingTimer' = NoSession

\* stopRecording up to its first await (native) or to its end (browser).
\* Browser: mediaRecorder.stop() is issued and the function returns; the
\* finally block resets isTranscribing in the same run.
\* Native: without a recording handle the function returns at once; with
\* one it suspends on stopAndUnloadAsync.
\* The session stopRecording acts on.  Browser: window.currentMediaRecorder,
\* if there is one and its state is 'recording'.  Native: the `recording`
\* handle, if there is one.
StopTarget ==
  IF platform = "web"
  THEN IF currentMediaRecorder # NoSession
          /\ sess[currentMediaRecorder].pc = "recording"
       THEN currentMediaRecorder ELSE NoSession
  ELSE recording

\* The sessions after the run of stopRecording: the browser's recorder is
\* told to stop; the native handle is given to stopAndUnloadAsync, and what
\* follows it uses the `user` of the render this stopRecording is of.
StopSess ==
  IF StopTarget = NoSession THEN sess
  ELSE IF platform = "web"
       THEN [sess EXCEPT ![StopTarget].pc = "flushing"]
       ELSE [sess EXCEPT ![StopTarget].pc = "unload", ![StopTarget].user = user]

\* isTranscribing after the run: true only if it suspended on
\* stopAndUnloadAsync; every return before that passes through finally.
StopTranscribing == platform = "native" /\ recording # NoSession

StopRecording ==
  /\ MainControls
  /\ RecordButtonTarget = "stop"
  /\ isRecording' = FALSE
  /\ ClearTimer
  /\ UNCHANGED <<recording, recordingDuration, currentMediaRecorder>>
  /\ isTranscribing' = StopTranscribing
  /\ sess' = StopSess
  /\ UNCHANGED <<env, clock, auth, store, obs, ops, edit>>

\* What runs when the pipeline of session i returns into stopRecording:
\* setRecording(null) and, in finally, setIsTranscribing(false).  In the
\* browser the pipeline runs in the recorder's callbacks and returns to no one.
PipelineEnd(i) ==
  /\ sess' = [sess EXCEPT ![i] = DoneSession(FALSE)]
  /\ IF platform = "native"
     THEN recording' = NoSession /\ isTranscribing' = FALSE
     ELSE UNCHANGED <<recording, isTranscribing>>
  /\ UNCHANGED <<isRecording, recordingDuration, recordingTimer, timers,
                 currentMediaRecorder>>

\* Browser: the recorder delivers its data; ondataavailable pushes the chunk.
DataAvailable(i, n) ==
  /\ platform = "web"
  /\ sess[i].pc = "flushing"
  /\ sess' = [sess EXCEPT ![i].pc = "stopEvt", ![i].len = @ + n]
  /\ UNCHANGED <<env, clock, auth, store, ctrl, obs, ops, edit>>

\* onstop run as soon as stop() was asked for, ahead of the final chunk.
OnStopUnflushed(i) ==
  /\ platform = "web"
  /\ sess[i].pc = "flushing"
  /\ sess' = [sess EXCEPT ![i].pc = "reading", ![i].held = FALSE]
  /\ UNCHANGED <<env, clock, auth, store, ctrl, obs, ops, edit>>

\* Browser: onstop builds the blob, starts the FileReader and stops the
\* stream's tracks.
OnStop(i) ==
  /\ platform = "web"
  /\ sess[i].pc = "stopEvt"
  /\ sess' = [sess EXCEPT ![i].pc = "reading", ![i].held = FALSE]
  /\ UNCHANGED <<env, clock, auth, store, ctrl, obs, ops, edit>>

\* Native: stopAndUnloadAsync resolved; getURI() gives the file or null.
\* Without a URI nothing is transcribed and nothing is reported.
UnloadResolve(i, hasUri) ==
  /\ platform = "native"
  /\ sess[i].pc = "unload"
  /\ IF hasUri
     THEN /\ sess' = [sess EXCEPT ![i].pc = "reading", ![i].held = FALSE]
          /\ UNCHANGED ctrl
     ELSE PipelineEnd(i)
  /\ UNCHANGED <<env, clock, auth, store, obs, ops, edit>>

\* Native: stopAndUnloadAsync rejected.  Whether the recorder was released is
\* up to expo-av.  catch reports 'Failed to process recording'; finally
\* resets isTranscribing; setRecording(null) is skipped.
UnloadReject(i, released) ==
  /\ platform = "native"
  /\ sess[i].pc = "unload"
  /\ sess' = [sess EXCEPT ![i] = DoneSession(~released)]
  /\ alert' = "Failed to process recording"
  /\ isTranscribing' = FALSE
  /\ UNCHANGED <<isRecording, recording, recordingDuration, recordingTimer,
                 timers, currentMediaRecorder>>
  /\ UNCHANGED <<env, clock, auth, store, disabledPress, ops, edit>>

\* The audio of session i is read as base64 (native: readAsStringAsync of a
\* file of n bytes; browser: the FileReader's onload, the text after the
\* comma of the data URL) and transcribeAudio sends it to
\* blink.ai.transcribeAudio, whatever its length.
ReadResolve(i, n) ==
  /\ sess[i].pc = "reading"
  /\ (platform = "web" => n = sess[i].len)
  /\ sess' = [sess EXCEPT ![i].pc = "transcribe", ![i].len = Base64Len(n)]
  /\ UNCHANGED <<env, clock, auth, store, ctrl, obs, ops, edit>>

\* Native: readAsStringAsync rejected; transcribeAudioFromFile reports
\* 'Failed to read audio file' and returns normally.
ReadReject(i) ==
  /\ platform = "native"
  /\ sess[i].pc = "reading"
  /\ PipelineEnd(i)
  /\ alert' = "Failed to read audio file"
  /\ UNCHANGED <<env, clock, auth, store, disabledPress, ops, edit>>

\* The test without the trim: if (text)
HasSpeechUntrimmed(text) == text # << >>

\* if (text.trim())
HasSpeech(text) == Trim(text) # << >>

\* The recognised text handed on as it came.
TranscriptionTitleRaw(text) == text

\* The argument of createTaskFromTranscription: text.trim()
TranscriptionTitle(text) == Trim(text)

\* blink.ai.transcribeAudio resolved with `text`.
\* if (text.trim()) createTaskFromTranscription(text.trim()) else alert.
\* createTaskFromTranscription builds the record from the `user` of the
\* render its handler chain was created in and awaits the remote create.
TranscribeResolve(i, text, now) ==
  /\ sess[i].pc = "transcribe"
  /\ IF HasSpeech(text)
     THEN /\ now \in ClockReads
          /\ clock' = now
          /\ sess' = [sess EXCEPT ![i].pc = "creating", ![i].text = text,
                                  ![i].title = TranscriptionTitle(text),
                                  ![i].at = now, ![i].len = 0]
          /\ UNCHANGED <<ctrl, alert>>
     ELSE /\ now = clock
          /\ clock' = clock
          /\ PipelineEnd(i)
          /\ alert' = "No speech detected"
  /\ UNCHANGED <<env, auth, store, disabledPress, ops, edit>>

\* blink.ai.transcribeAudio rejected: 'Transcription failed'.
TranscribeReject(i) ==
  /\ sess[i].pc = "transcribe"
  /\ PipelineEnd(i)
  /\ alert' = "Transcription failed"
  /\ UNCHANGED <<env, clock, auth, store, disabledPress, ops, edit>>

SessionDraft(i) == NewTaskDraft(sess[i].title, sess[i].user, sess[i].at)

\* The record that was sent, in place of the one that came back.
CreatedTaskDraft(row, draft) == draft

\* const newTask = await blink.db.tasks.create({...})
CreatedTask(row, draft) == row

\* blink.db.tasks.create resolved: the returned row is prepended and
\* 'Task Created!' is shown.
CreateResolve(i) ==
  /\ sess[i].pc = "creating"
  /\ LET draft == SessionDraft(i)
         row == RemoteRow(draft)
     IN /\ remote' = Append(remote, row)
        /\ tasks' = Prepend(CreatedTask(row, draft), tasks)
  /\ PipelineEnd(i)
  /\ alert' = "Task Created!"
  /\ UNCHANGED <<env, clock, auth, disabledPress, ops, edit>>

\* blink.db.tasks.create rejected: 'Failed to create task'.
CreateReject(i) ==
  /\ sess[i].pc = "creating"
  /\ PipelineEnd(i)
  /\ alert' = "Failed to create task"
  /\ writeFailed' = TRUE
  /\ UNCHANGED <<env, clock, auth, store, disabledPress, reqs, nOps, edit>>

\* ------------------------------------------------------------ task store
\* sampleTasks[Math.floor(Math.random() * sampleTasks.length)]: the entries
\* are treated alike by every handler, so one stands for all eight.
SampleTasks == {<<"Buy groceries for the week">>}

\* What the user may type into the edit modal.
EditTitles == {<< >>, <<"c">>}
EditDeadlines == {"", "2026-01-01"}

\* A call to blink.db.tasks.* that has been made and not yet returned to its
\* handler.  `written` tells whether the service has carried it out; it is
\* followed for the updates of toggleTaskCompletion, whose responses may reach
\* the handlers in another order than the service carried the updates out.
\* For a create, an edit and a delete the write and the return are one step.
Request(kind, id, title, completed, deadline, now, uid) ==
  [rid |-> nOps + 1, kind |-> kind, id |-> id, title |-> title,
   completed |-> completed, deadline |-> deadline, at |-> now, user |-> uid,
   written |-> FALSE]

\* A handler that stamps its request reads the clock as it issues it.
Issue(r, stamped) ==
  /\ IF stamped THEN r.at \in ClockReads /\ clock' = r.at
                ELSE r.at = 0 /\ clock' = clock
  /\ reqs' = reqs \cup {r}
  /\ nOps' = nOps + 1
  /\ writeFailed' = writeFailed

Settle(r, ok) ==
  /\ reqs' = reqs \ {r}
  /\ nOps' = nOps
  /\ writeFailed' = (writeFailed \/ ~ok)

\* addSampleTask up to its await ('+ Add Sample Task', rendered in the browser
\* while not recording).
AddSampleTask(title, now) ==
  /\ MainControls
  /\ platform = "web"
  /\ ~isRecording
  /\ Issue(Request("create", now, title, 0, "undef", now, user), TRUE)
  /\ UNCHANGED <<env, auth, store, ctrl, sess, obs, edit>>

\* addSampleTask: blink.db.tasks.create resolved.
SampleCreateResolve(r) ==
  /\ r \in reqs
  /\ r.kind = "create"
  /\ LET draft == NewTaskDraft(r.title, r.user, r.at)
         row == RemoteRow(draft)
     IN /\ remote' = Append(remote, row)
        /\ tasks' = Prepend(CreatedTask(row, draft), tasks)
  /\ Settle(r, TRUE)
  /\ UNCHANGED <<env, clock, auth, ctrl, sess, obs, edit>>

\* The handlers as they would be with the local change made ahead of the
\* remote call and not taken back in catch.
RequestRejectAfterLocalChange(r) ==
  /\ r \in reqs
  /\ ~r.written
  /\ tasks' = CASE r.kind = "toggle" ->
                    [k \in DOMAIN tasks |->
                       IF tasks[k].id = r.id
                       THEN [tasks[k] EXCEPT !.completed = r.completed]
                       ELSE tasks[k]]
                 [] r.kind = "edit" ->
                    [k \in DOMAIN tasks |->
                       IF tasks[k].id = r.id
                       THEN [tasks[k] EXCEPT !.title = r.title, !.deadline = r.deadline]
                       ELSE tasks[k]]
                 [] r.kind = "delete" ->
                    LET Keep(t) == t.id # r.id IN SelectSeq(tasks, Keep)
                 [] OTHER -> tasks
  /\ remote' = remote
  /\ reqs' = reqs \ {r}
  /\ nOps' = nOps
  /\ writeFailed' = TRUE
  /\ UNCHANGED <<env, clock, auth, ctrl, sess, obs, edit>>

\* A rejected request: the service has not carried it out, and every handler
\* of the task list only logs the error.
RequestReject(r) ==
  /\ r \in reqs
  /\ ~r.written
  /\ Settle(r, FALSE)
  /\ UNCHANGED <<env, clock, auth, store, ctrl, sess, obs, edit>>

\* const newCompleted = task.completed ? 0 : 1
NewCompleted(task) == IF task.completed # 0 THEN 0 ELSE 1

\* toggleTaskCompletion(item) up to its await; `item` is the record the
\* pressed row was rendered from.
ToggleTaskCompletion(k, now) ==
  /\ MainControls
  /\ k \in 1..Len(tasks)
  /\ Issue(Request("toggle", tasks[k].id, << >>, NewCompleted(tasks[k]), "undef",
                   now, user), TRUE)
  /\ UNCHANGED <<env, auth, store, ctrl, sess, obs, edit>>

\* The flip computed from the record as it is now, not from the pressed row.
ToggleLocalFromLatest(prev, id, c, now) ==
  [k \in DOMAIN prev |->
     IF prev[k].id = id
     THEN [prev[k] EXCEPT !.completed = IF @ # 0 THEN 0 ELSE 1]
     ELSE prev[k]]

\* setTasks(prev => prev.map(t => t.id === task.id
\*                                ? { ...t, completed: newCompleted } : t))
ToggleLocal(prev, id, c, now) ==
  [k \in DOMAIN prev |->
     IF prev[k].id = id THEN [prev[k] EXCEPT !.completed = c] ELSE prev[k]]

\* The update with its stamp in the wrong column: { completed, created_at }
ToggleRemoteStampsCreation(rows, id, c, now) ==
  [k \in DOMAIN rows |->
     IF rows[k].id = id
     THEN [rows[k] EXCEPT !.completed = c, !.created_at = now]
     ELSE rows[k]]

\* blink.db.tasks.update(task.id, { completed, updated_at })
ToggleRemote(rows, id, c, now) ==
  [k \in DOMAIN rows |->
     IF rows[k].id = id
     THEN [rows[k] EXCEPT !.completed = c, !.updated_at = now]
     ELSE rows[k]]

\* The service carries out the update of a toggle; its response is on its way.
ToggleWrite(r) ==
  /\ r \in reqs
  /\ r.kind = "toggle"
  /\ ~r.written
  /\ remote' = ToggleRemote(remote, r.id, r.completed, r.at)
  /\ reqs' = (reqs \ {r}) \cup {[r EXCEPT !.written = TRUE]}
  /\ UNCHANGED <<tasks, nOps, writeFailed>>
  /\ UNCHANGED <<env, clock, auth, ctrl, sess, obs, edit>>

\* toggleTaskCompletion: the update resolved.
ToggleResolve(r) ==
  /\ r \in reqs
  /\ r.kind = "toggle"
  /\ r.written
  /\ tasks' = ToggleLocal(tasks, r.id, r.completed, r.at)
  /\ remote' = remote
  /\ Settle(r, TRUE)
  /\ UNCHANGED <<env, clock, auth, ctrl, sess, obs, edit>>

\* deleteTask(item.id) up to its await.
DeleteTask(k) ==
  /\ MainControls
  /\ k \in 1..Len(tasks)
  /\ Issue(Request("delete", tasks[k].id, << >>, 0, "undef", 0, user), FALSE)
  /\ UNCHANGED <<env, auth, store, ctrl, sess, obs, edit>>

\* The filter with its test the wrong way round: t.id === taskId
OnlyId(rows, id) ==
  LET Keep(t) == t.id = id IN SelectSeq(rows, Keep)

\* prev.filter(t => t.id !== taskId)
WithoutId(rows, id) ==
  LET Keep(t) == t.id # id IN SelectSeq(rows, Keep)

\* deleteTask: the delete resolved.
DeleteResolve(r) ==
  /\ r \in reqs
  /\ r.kind = "delete"
  /\ remote' = WithoutId(remote, r.id)
  /\ tasks' = WithoutId(tasks, r.id)
  /\ Settle(r, TRUE)
  /\ UNCHANGED <<env, clock, auth, ctrl, sess, obs, edit>>

\* task.deadline || ''
DeadlineOrEmpty(d) == IF d \in {"undef", "null", ""} THEN "" ELSE d

\* editDeadline || null
DeadlineOrNull(d) == IF d = "" THEN "null" ELSE d

OpenEditModal(k) ==
  /\ MainControls
  /\ k \in 1..Len(tasks)
  /\ editingTask' = tasks[k].id
  /\ editTitle' = tasks[k].title
  /\ editDeadline' = DeadlineOrEmpty(tasks[k].deadline)
  /\ editModalVisible' = TRUE
  /\ UNCHANGED <<env, clock, auth, store, ctrl, sess, obs, ops>>

\* onChangeText={setEditTitle}
ChangeEditTitle(t) ==
  /\ ModalControls
  /\ editTitle' = t
  /\ UNCHANGED <<editingTask, editDeadline, editModalVisible>>
  /\ UNCHANGED <<env, clock, auth, store, ctrl, sess, obs, ops>>

\* onChangeText={setEditDeadline}
ChangeEditDeadline(d) ==
  /\ ModalControls
  /\ editDeadline' = d
  /\ UNCHANGED <<editingTask, editTitle, editModalVisible>>
  /\ UNCHANGED <<env, clock, auth, store, ctrl, sess, obs, ops>>

\* Cancel: setEditModalVisible(false)
CancelEdit ==
  /\ ModalControls
  /\ editModalVisible' = FALSE
  /\ UNCHANGED <<editingTask, editTitle, editDeadline>>
  /\ UNCHANGED <<env, clock, auth, store, ctrl, sess, obs, ops>>

\* saveTaskEdit up to its await.
SaveTaskEdit(now) ==
  /\ ModalControls
  /\ editingTask # NoTask
  /\ Issue(Request("edit", editingTask, editTitle, 0, editDeadline, now, user), TRUE)
  /\ UNCHANGED <<env, auth, store, ctrl, sess, obs, edit>>

\* The local patch carrying the stamp that was sent to the service as well:
\* { ...t, title: editTitle, deadline: editDeadline, updated_at }
EditLocalStamped(prev, id, title, deadline, now) ==
  [k \in DOMAIN prev |->
     IF prev[k].id = id
     THEN [prev[k] EXCEPT !.title = title, !.deadline = deadline, !.updated_at = now]
     ELSE prev[k]]

\* setTasks(prev => prev.map(t => t.id === editingTask.id
\*                   ? { ...t, title: editTitle, deadline: editDeadline } : t))
EditLocal(prev, id, title, deadline, now) ==
  [k \in DOMAIN prev |->
     IF prev[k].id = id
     THEN [prev[k] EXCEPT !.title = title, !.deadline = deadline]
     ELSE prev[k]]

\* blink.db.tasks.update(editingTask.id, { title, deadline: editDeadline || null,
\*                                         updated_at })
EditRemote(rows, id, title, deadline, now) ==
  [k \in DOMAIN rows |->
     IF rows[k].id = id
     THEN [rows[k] EXCEPT !.title = title, !.deadline = DeadlineOrNull(deadline),
                          !.updated_at = now]
     ELSE rows[k]]

\* saveTaskEdit: the update resolved.
SaveResolve(r) ==
  /\ r \in reqs
  /\ r.kind = "edit"
  /\ remote' = EditRemote(remote, r.id, r.title, r.deadline, r.at)
  /\ tasks' = EditLocal(tasks, r.id, r.title, r.deadline, r.at)
  /\ editModalVisible' = FALSE
  /\ editingTask' = NoTask
  /\ Settle(r, TRUE)
  /\ UNCHANGED <<editTitle, editDeadline>>
  /\ UNCHANGED <<env, clock, auth, ctrl, sess, obs>>

\* ------------------------------------------------------------------- next
NextCapture ==
  \/ \E u \in Users \cup {NoUser}, l \in BOOLEAN : AuthEmit(u, l)
  \/ Unmount
  \/ PressDisabled
  \/ StartRecording
  \/ StopRecording
  \/ \E t \in Sessions : TimerTick(t)
  \/ \E i \in Sessions :
       \/ \E ok \in BOOLEAN : GetUserMediaResolve(i, ok)
       \/ GetUserMediaReject(i)
       \/ \E g \in PermissionStatuses : PermissionResolve(i, g)
       \/ AudioModeResolve(i)
       \/ CreateAsyncResolve(i)
       \/ StartReject(i)
       \/ \E n \in 0..MaxPayload : DataAvailable(i, n)
       \/ OnStop(i)
       \/ \E h \in BOOLEAN : UnloadResolve(i, h)
       \/ \E r \in BOOLEAN : UnloadReject(i, r)
       \/ \E n \in 0..MaxPayload : ReadResolve(i, n)
       \/ ReadReject(i)
       \/ \E x \in Texts, now \in 0..MaxClock : TranscribeResolve(i, x, now)
       \/ TranscribeReject(i)
       \/ CreateResolve(i)
       \/ CreateReject(i)

SpecCapture == Init /\ [][NextCapture]_vars

\* An awaited external call of session i (permission, open, finalize, read,
\* transcription, create) or a recorder event it waits for returns or throws.
Returns(i) ==
  \/ \E ok \in BOOLEAN : GetUserMediaResolve(i, ok)
  \/ GetUserMediaReject(i)
  \/ \E g \in PermissionStatuses : PermissionResolve(i, g)
  \/ AudioModeResolve(i)
  \/ CreateAsyncResolve(i)
  \/ StartReject(i)
  \/ \E n \in 0..MaxPayload : DataAvailable(i, n)
  \/ OnStop(i)
  \/ \E h \in BOOLEAN : UnloadResolve(i, h)
  \/ \E r \in BOOLEAN : UnloadReject(i, r)
  \/ \E n \in 0..MaxPayload : ReadResolve(i, n)
  \/ ReadReject(i)
  \/ \E x \in Texts, now \in 0..MaxClock : TranscribeResolve(i, x, now)
  \/ TranscribeReject(i)
  \/ CreateResolve(i)
  \/ CreateReject(i)

\* The recording pipeline when every awaited external call eventually returns
\* or throws; what the user and the auth service do is left open.
SpecCaptureFair == SpecCapture /\ \A i \in Sessions : WF_vars(Returns(i))

\* The task list of a signed-in user.
NextStore ==
  \/ \E u \in Users : AuthEmit(u, FALSE)
  \/ nOps < MaxOps /\ \E x \in SampleTasks, now \in 0..MaxClock : AddSampleTask(x, now)
  \/ nOps < MaxOps /\ \E k \in 1..MaxOps, now \in 0..MaxClock : ToggleTaskCompletion(k, now)
  \/ nOps < MaxOps /\ \E k \in 1..MaxOps : DeleteTask(k)
  \/ \E k \in 1..MaxOps : OpenEditModal(k)
  \/ \E t \in EditTitles : ChangeEditTitle(t)
  \/ \E d \in EditDeadlines : ChangeEditDeadline(d)
  \/ CancelEdit
  \/ nOps < MaxOps /\ \E now \in 0..MaxClock : SaveTaskEdit(now)
  \/ \E r \in reqs : SampleCreateResolve(r)
  \/ \E r \in reqs : ToggleWrite(r)
  \/ \E r \in reqs : ToggleResolve(r)
  \/ \E r \in reqs : DeleteResolve(r)
  \/ \E r \in reqs : SaveResolve(r)
  \/ \E r \in reqs : RequestReject(r)

SpecStore == Init /\ [][NextStore]_vars

\* The task list of a signed-in user who adds tasks and toggles them.
NextToggle ==
  \/ \E u \in Users : AuthEmit(u, FALSE)
  \/ nOps < MaxToggleOps /\
       \E x \in SampleTasks, now \in 0..MaxClock : AddSampleTask(x, now)
  \/ nOps < MaxToggleOps /\
       \E k \in 1..MaxToggleOps, now \in 0..MaxClock : ToggleTaskCompletion(k, now)
  \/ \E r \in reqs : SampleCreateResolve(r)
  \/ \E r \in reqs : ToggleWrite(r)
  \/ \E r \in reqs : ToggleResolve(r)
  \/ \E r \in reqs : RequestReject(r)

SpecToggle == Init /\ [][NextToggle]_vars

\* ------------------------------------------------------------------ claims
\* A capture session that is open: its recorder exists and its microphone
\* resource is held.
OpenCapture(i) ==
  sess[i].held /\ sess[i].pc \in {"recording", "flushing", "stopEvt", "unload"}

\* A session whose recording is in one of the stages Recording, Stopping or
\* Transcribing (the last up to the resolution of its create).
PipelineOutstanding(i) ==
  sess[i].pc \in {"recording", "flushing", "stopEvt", "unload", "reading",
                  "transcribe", "creating"}

\* Step predicate: startRecording is invoked for session i.
StartAccepted(i) == sess[i].pc = "unused" /\ sess'[i].pc # "unused"

\* C1: in every reachable state at most one capture session is open, also
\* when startRecording is invoked again while an earlier invocation is still
\* suspended on the permission request.
C1_AtMostOneCaptureSession ==
  Cardinality({i \in Sessions : OpenCapture(i)}) <= 1

\* C2: a new start is never accepted while a stage of an earlier recording's
\* pipeline (Recording, Stopping, Transcribing up to its create) is
\* outstanding.
C2_NoStartWhilePipelineOutstanding ==
  [][\A i \in Sessions :
       StartAccepted(i) => \A j \in Sessions : ~PipelineOutstanding(j)]_vars

\* C3: in the browser the controller stays in Stopping/Transcribing, with the
\* record control disabled, until the recorder has delivered its final chunk
\* and reported that it stopped.
C3_BrowserStopWaitsForFlush ==
  platform = "web" =>
    \A i \in Sessions : sess[i].pc \in {"flushing", "stopEvt"} => isTranscribing

\* C4: while the controller is Recording or Transcribing no startRecording is
\* begun, and a press that asks for one (a press of the disabled control)
\* leaves the controller, the sessions and the task store as they are.
C4_StartIgnoredWhileBusy ==
  [][(isRecording \/ isTranscribing) =>
       /\ \A i \in Sessions : ~StartAccepted(i)
       /\ (disabledPress' # disabledPress =>
             UNCHANGED <<ctrl, sess, store, alert>>)]_vars

C4_Witness ==
  /\ disabledPress
  /\ isTranscribing
  /\ UnusedSessions # {}
  /\ \E i \in Sessions : sess[i].pc = "unload"

\* C5: an audio payload of length zero is never sent to the transcription
\* service.
C5_EmptyPayloadNotTranscribed ==
  \A i \in Sessions : sess[i].pc = "transcribe" => sess[i].len > 0

\* Step predicate: the handlers of session i return for good.
PipelineEnds(i) == sess[i].pc # "done" /\ sess'[i].pc = "done"

\* The alerts of the outcomes NoSpeechDetected, TranscriptionFailed,
\* PermissionDenied and DeviceUnavailable.
FailureAlerts ==
  {"No speech detected", "Transcription failed", "Permission Denied",
   "Permission required", "Not Supported", "Failed to start recording"}

\* The text has a character that is not white space.
NonBlank(text) == \E k \in 1..Len(text) : text[k] # " "

\* C6: a pipeline run that ends in NoSpeechDetected, TranscriptionFailed,
\* PermissionDenied or DeviceUnavailable leaves the local task collection and
\* the remote rows exactly as they were and has issued no create; recognised
\* text that is all white space never gets as far as a create.
C6_FailedRunLeavesTasksUnchanged ==
  /\ [](\A i \in Sessions : sess[i].pc = "creating" => NonBlank(sess[i].text))
  /\ [][\A i \in Sessions :
          (PipelineEnds(i) /\ alert' \in FailureAlerts) =>
             /\ tasks' = tasks
             /\ remote' = remote
             /\ sess[i].pc # "creating"]_vars

C6_Witness ==
  /\ alert = "No speech detected"
  /\ Len(tasks) = 1
  /\ Len(remote) = 1
  /\ \A i \in Sessions : sess[i].pc = "done"

\* Step predicate: the remote rows gain exactly one row, at the end.
RemoteGainsRow ==
  /\ Len(remote') = Len(remote) + 1
  /\ SubSeq(remote', 1, Len(remote)) = remote

\* C7: the local collection changes only in the step in which a pending
\* create succeeds remotely, and then by gaining, in front, the very row the
\* remote call returned; a create that fails leaves the local collection as
\* it was.
C7_CreatePrependsReturnedRowAfterSuccess ==
  [][/\ tasks' # tasks =>
          /\ \E i \in Sessions : sess[i].pc = "creating" /\ PipelineEnds(i)
          /\ RemoteGainsRow
          /\ tasks' = <<remote'[Len(remote')]>> \o tasks
     /\ \A i \in Sessions :
          (sess[i].pc = "creating" /\ PipelineEnds(i) /\ remote' = remote) =>
             tasks' = tasks]_vars

C7_Witness ==
  /\ alert = "Failed to create task"
  /\ Len(tasks) = 1
  /\ tasks[1] = remote[1]
  /\ tasks[1].deadline = "null"

\* t is s without its leading and trailing white space.
IsTrimOf(t, s) ==
  /\ t # << >> => (t[1] # " " /\ t[Len(t)] # " ")
  /\ \E a \in 0..Len(s) :
       /\ a + Len(t) <= Len(s)
       /\ \A k \in 1..Len(s) :
            IF k > a /\ k <= a + Len(t) THEN s[k] = t[k - a] ELSE s[k] = " "

\* C8: for recognised non-empty text T the create is called with the trimmed
\* T as title, completed false and no deadline, and when it succeeds that
\* task is the first element of the local task list.
C8_CreateFromRecognisedText ==
  /\ [](\A i \in Sessions :
          sess[i].pc = "creating" =>
             /\ sess[i].text # << >>
             /\ IsTrimOf(SessionDraft(i).title, sess[i].text)
             /\ SessionDraft(i).completed = 0
             /\ SessionDraft(i).deadline = "undef")
  /\ [][\A i \in Sessions :
          (sess[i].pc = "creating" /\ PipelineEnds(i) /\ remote' # remote) =>
             /\ tasks' # << >>
             /\ tasks'[1].id = SessionDraft(i).id
             /\ IsTrimOf(tasks'[1].title, sess[i].text)
             /\ tasks'[1].completed = 0
             /\ tasks'[1].deadline \in {"undef", "null"}
             /\ Tail(tasks') = tasks]_vars

C8_Witness ==
  /\ alert = "Task Created!"
  /\ tasks # << >>
  /\ tasks[1].title = <<"b">>
  /\ tasks[1].completed = 0
  /\ tasks[1].deadline = "null"

\* C9: no two records of the local collection share an id.
C9_LocalIdsUnique ==
  \A j, k \in 1..Len(tasks) : j # k => tasks[j].id # tasks[k].id

\* Step predicates: request r is issued; the service carries r out (for a
\* toggle, a step of its own); r returns to its handler.
Issued(r) == r \in reqs' /\ \A q \in reqs : q.rid # r.rid
Written(r) == r \in reqs /\ ~r.written /\ [r EXCEPT !.written = TRUE] \in reqs'
Settled(r) == r \in reqs /\ \A q \in reqs' : q.rid # r.rid

\* Step predicate: the toggle request r succeeds: the service carries it out,
\* or its handler applies it to the local collection.
ToggleApplied(r) ==
  /\ r.kind = "toggle"
  /\ (Written(r) \/ (Settled(r) /\ r.written))

\* C10: every toggle that succeeds flips the completed flag of the record it
\* names and strictly increases that record's updatedAt, in the remote rows
\* when the service carries it out and in the local collection when its
\* handler applies it.
C10_ToggleFlipsAndAdvances ==
  [][\A r \in reqs :
       ToggleApplied(r) =>
          /\ Settled(r) =>
               \A k \in 1..Len(tasks) :
                 tasks[k].id = r.id =>
                    /\ tasks'[k].completed # tasks[k].completed
                    /\ tasks'[k].updated_at > tasks[k].updated_at
          /\ Written(r) =>
               \A k \in 1..Len(remote) :
                 remote[k].id = r.id =>
                    /\ remote'[k].completed # remote[k].completed
                    /\ remote'[k].updated_at > remote[k].updated_at]_vars

\* C11 (as stated): the local flip is applied in the step that issues the
\* remote update, not after it.
C11_OptimisticToggle ==
  [][\A r \in reqs' :
       (Issued(r) /\ r.kind = "toggle") =>
          /\ Len(tasks') = Len(tasks)
          /\ \A k \in 1..Len(tasks) :
               tasks[k].id = r.id => tasks'[k].completed = r.completed]_vars

\* C11 (amended): issuing a toggle leaves the local collection and the remote
\* rows as they are; the remote update sets the flag of the rows of that id to
\* the value that was sent and leaves the local collection alone; the local
\* flip is applied only when that update has succeeded and returns, and sets
\* the flag of the local records of that id to the same value; a toggle whose
\* remote update fails leaves the local collection unchanged.
C11_ToggleAppliedAfterRemoteSuccess ==
  [][/\ \A r \in reqs' :
          (Issued(r) /\ r.kind = "toggle") => (tasks' = tasks /\ remote' = remote)
     /\ \A r \in reqs :
          r.kind = "toggle" =>
             /\ Written(r) =>
                  /\ tasks' = tasks
                  /\ Len(remote') = Len(remote)
                  /\ \A k \in 1..Len(remote) :
                       remote'[k].completed =
                         IF remote[k].id = r.id THEN r.completed
                                                ELSE remote[k].completed
             /\ (Settled(r) /\ r.written) =>
                  /\ remote' = remote
                  /\ Len(tasks') = Len(tasks)
                  /\ \A k \in 1..Len(tasks) :
                       tasks'[k].completed =
                         IF tasks[k].id = r.id THEN r.completed ELSE tasks[k].completed
             /\ (Settled(r) /\ ~r.written) =>
                  (tasks' = tasks /\ remote' = remote)]_vars

C11_Witness ==
  \E r \in reqs :
    /\ r.kind = "toggle"
    /\ r.completed = 1
    /\ \E k \in 1..Len(tasks) : tasks[k].id = r.id /\ tasks[k].completed = 0
    /\ \E k \in 1..Len(remote) : remote[k].id = r.id /\ remote[k].completed = 0

\* C12: every record's title, in the local collection and in the remote rows,
\* is non-empty, whatever was saved from the edit modal.
C12_TitlesNonEmpty ==
  /\ \A k \in 1..Len(tasks) : tasks[k].title # << >>
  /\ \A k \in 1..Len(remote) : remote[k].title # << >>

\* C13: when no remote write has failed and none is pending, the local
\* collection is what a list() of the signed-in user's rows returns: the same
\* records, field for field, in the same order.
C13_ListEqualsLocal ==
  (~writeFailed /\ reqs = {}) => IsListOf(tasks, remote, user)

\* C14: when the auth service emits a state with a user present, a list
\* request for that user's tasks is issued.
C14_AuthEmitFetchesList ==
  [][(user' # NoUser /\ auth' # auth) =>
       \E r \in reqs' : r.kind = "list" /\ r.user = user']_vars

\* No record of the sequence has the id.
Absent(rows, id) == \A k \in 1..Len(rows) : rows[k].id # id

\* C15: a delete that removed the remote rows of its id leaves no local
\* record of that id, and a delete of an id that is no longer present
\* locally, when it settles, leaves the local collection unchanged and
\* reports no error.
C15_SecondDeleteIsNoOp ==
  [][\A r \in reqs :
       (Settled(r) /\ r.kind = "delete") =>
          /\ remote' # remote => Absent(tasks', r.id)
          /\ Absent(tasks, r.id) => (tasks' = tasks /\ alert' = alert)]_vars

C15_Witness ==
  /\ ~writeFailed
  /\ nOps = 3
  /\ tasks = << >>
  /\ remote = << >>
  /\ \E r \in reqs : r.kind = "delete" /\ reqs = {r}

\* The stages of a session from the stop request to the end of its pipeline.
StopStages == {"flushing", "stopEvt", "unload", "reading", "transcribe", "creating"}

\* C16: when the run that stop() began for a session ends, on whatever path,
\* the session's capture resource is released and the controller holds no
\* recording handle any more.
C16_StopReleasesCapture ==
  [][\A i \in Sessions :
       (sess[i].pc \in StopStages /\ PipelineEnds(i)) =>
          (~sess'[i].held /\ recording' = NoSession)]_vars

PermissionAlerts == {"Permission Denied", "Permission required"}

\* C17: a session gets past the permission request only with the permission
\* granted; a start that ends at the permission request reports it
\* (PermissionDenied, or the failure of the request itself) and leaves the
\* controller (isRecording, the recording handle, isTranscribing, the elapsed
\* counter, the tick timers) and the task store as they were.
C17_PermissionDeniedStaysIdle ==
  /\ [](\A i \in Sessions :
          sess[i].pc \notin {"unused", "perm", "done"} => sess[i].perm = "granted")
  /\ [][\A i \in Sessions :
          (sess[i].pc = "perm" /\ PipelineEnds(i)) =>
             /\ alert' \in PermissionAlerts \cup {"Failed to start recording"}
             /\ UNCHANGED <<ctrl, store>>]_vars

C17_Witness ==
  /\ platform = "native"
  /\ alert = "Permission required"
  /\ sess[1].pc = "done"
  /\ ~isRecording
  /\ recording = NoSession
  /\ timers = {}
  /\ recordingDuration = 0

\* C18: a start that fails, at the permission request or while opening the
\* recorder, ends with nothing held.
C18_FailedStartReleases ==
  [][\A i \in Sessions :
       (sess[i].pc \in {"perm", "mode", "open"} /\ PipelineEnds(i)) =>
          ~sess'[i].held]_vars

\* C19: a tick timer is scheduled only while the controller is Recording: the
\* elapsed counter changes only by a reset to 0 or by a tick of 1, and while
\* the controller is not Recording no timer is scheduled and the counter
\* stands still.
C19_TickOnlyWhileRecording ==
  /\ [](~isRecording => timers = {})
  /\ [][/\ recordingDuration' \in {recordingDuration, 0, recordingDuration + 1}
        /\ (~isRecording /\ ~isRecording') =>
              recordingDuration' = recordingDuration]_vars

\* C20: run from Idle, stopRecording changes nothing (no session is stopped,
\* the flags, the timer reference and the timers stay as they are); and a
\* session that has produced its payload is never stopped again.
C20_StopFromIdleIsNoOp ==
  /\ []((~isRecording /\ ~isTranscribing) =>
          /\ StopSess = sess
          /\ StopTranscribing = FALSE
          /\ recordingTimer = NoSession)
  /\ [][\A i \in Sessions :
          sess[i].pc \in {"reading", "transcribe", "creating", "done"} =>
             sess'[i].pc \notin {"flushing", "stopEvt", "unload"}]_vars

\* The place of a stage in the life of one recording.
StageRank(pc) ==
  CASE pc = "unused" -> 0
    [] pc = "perm" -> 1
    [] pc = "mode" -> 2
    [] pc = "open" -> 3
    [] pc = "recording" -> 4
    [] pc \in {"flushing", "unload"} -> 5
    [] pc = "stopEvt" -> 6
    [] pc = "reading" -> 7
    [] pc = "transcribe" -> 8
    [] pc = "creating" -> 9
    [] pc = "done" -> 10

\* C21: one recording goes through its stages in order and never back: its
\* stop is accepted only once its start (permission and open) has resolved,
\* its audio is read and sent to transcription only once its finalize has
\* resolved (browser: final chunk delivered and stop reported; native:
\* stopAndUnloadAsync resolved), and its create is invoked only once its
\* transcription has resolved.
C21_StagesInOrder ==
  [][\A i \in Sessions :
       LET a == sess[i].pc
           b == sess'[i].pc
       IN a # b =>
            /\ StageRank(a) < StageRank(b)
            /\ b = "recording" => a = (IF platform = "web" THEN "perm" ELSE "open")
            /\ b \in {"flushing", "unload"} => a = "recording"
            /\ b = "stopEvt" => a = "flushing"
            /\ b = "reading" => a \in {"stopEvt", "unload"}
            /\ b = "transcribe" => a = "reading"
            /\ b = "creating" => a = "transcribe"]_vars

C21_Witness ==
  \E i, j \in Sessions :
    /\ i # j
    /\ sess[i].pc = "creating"
    /\ sess[i].perm = "granted"
    /\ sess[j].pc \in {"perm", "mode", "open"}

\* The alerts of a capture, transcription or persistence failure.
AllFailureAlerts ==
  FailureAlerts \cup {"Failed to process recording", "Failed to read audio file",
                      "Failed to create task"}

Idle == ~isRecording /\ ~isTranscribing

\* C22: when every awaited external call eventually returns or throws, a
\* failure leaves the controller on its way back to Idle: the run that ends in
\* a failure does not leave the controller Recording (nothing but a stop
\* request ends Recording), and Transcribing always ends in Idle.
C22_FailureReturnsToIdle ==
  /\ [][\A i \in Sessions :
          (PipelineEnds(i) /\ alert' \in AllFailureAlerts) => ~isRecording']_vars
  /\ (isTranscribing ~> Idle)

\* The records of other ids, in their order.
OtherRecords(rows, id) ==
  LET Other(t) == t.id # id IN SelectSeq(rows, Other)

\* Step predicate: the local collection after the step shows what request r
\* asked for.
EffectPresent(r) ==
  CASE r.kind = "create" ->
         /\ tasks' # << >>
         /\ tasks'[1].id = r.id
         /\ tasks'[1].title = r.title
         /\ Tail(tasks') = tasks
    [] r.kind = "toggle" ->
         /\ Len(tasks') = Len(tasks)
         /\ \A k \in 1..Len(tasks) : tasks[k].id = r.id => tasks'[k].id = r.id
         /\ \A k \in 1..Len(tasks') :
              tasks'[k].id = r.id => tasks'[k].completed = r.completed
    [] r.kind = "edit" ->
         /\ Len(tasks') = Len(tasks)
         /\ \A k \in 1..Len(tasks) : tasks[k].id = r.id => tasks'[k].id = r.id
         /\ \A k \in 1..Len(tasks') :
              tasks'[k].id = r.id =>
                 (tasks'[k].title = r.title /\ tasks'[k].deadline = r.deadline)
    [] r.kind = "delete" -> Absent(tasks', r.id)
    [] OTHER -> TRUE

\* C23: the local collection changes only in the step in which one request
\* returns to its handler; that step leaves every record of another id as it
\* was and in its place, whatever else is in flight and whatever has returned
\* before, and, when the request succeeded, the collection after it shows the
\* request's effect.  So of two mutations of different tasks that are in
\* flight together both effects are there once both have returned, in either
\* order of return.
C23_ConcurrentMutationsBothApplied ==
  [][/\ tasks' # tasks => \E r \in reqs : Settled(r)
     /\ \A r \in reqs :
          Settled(r) =>
             /\ OtherRecords(tasks', r.id) = OtherRecords(tasks, r.id)
             /\ ~writeFailed' => EffectPresent(r)]_vars

\* A toggle issued while a create was in flight has returned and is applied;
\* the create is still in flight.
C23_Witness ==
  /\ ~writeFailed
  /\ nOps = 3
  /\ Len(tasks) = 1
  /\ tasks[1].completed = 1
  /\ \E r \in reqs :
       /\ reqs = {r}
       /\ r.kind = "create"
       /\ r.rid = 2
       /\ r.id # tasks[1].id

\* C24: once the component is disposed of, no emission of the auth service
\* reaches its callback: setUser, setIsLoading and loadTasks are not called
\* any more.
C24_NoEmissionAfterUnmount ==
  [][~mounted => UNCHANGED <<user, isLoading, reqs>>]_vars

\* C25: every record, in the remote rows and in the local collection, has
\* updatedAt >= createdAt, whatever creates, toggles and edits have been made.
C25_UpdatedNotBeforeCreated ==
  /\ \A k \in 1..Len(remote) : remote[k].updated_at >= remote[k].created_at
  /\ \A k \in 1..Len(tasks) : tasks[k].updated_at >= tasks[k].created_at

\* A record toggled at a later instant than it was created at.
C25_Witness ==
  \E k \in 1..Len(remote), j \in 1..Len(tasks) :
    /\ remote[k].id = tasks[j].id
    /\ remote[k].updated_at > remote[k].created_at
    /\ remote[k].completed = 1
    /\ tasks[j].completed = 1

\* C26: no call to the persistence service (list, create, update, delete) is
\* made while the auth state has no user, the create at the end of a pipeline
\* run that was in flight when the user went away included.
C26_NoStoreOpWithoutUser ==
  [][/\ \A i \in Sessions :
          (sess[i].pc # "creating" /\ sess'[i].pc = "creating") => user # NoUser
     /\ \A r \in reqs' : Issued(r) => user # NoUser]_vars

\* C27: isRecording and isTranscribing are never both true, also when a
\* startRecording that was suspended on its permission request or on the
\* opening of the recorder resumes after a stopRecording has begun.
C27_NotRecordingAndTranscribing == ~(isRecording /\ isTranscribing)

\* C28: the local collection is ordered by createdAt, latest first, whatever
\* the order in which the creates return.
C28_LocalOrderedByCreatedAtDesc ==
  \A j, k \in 1..Len(tasks) : j < k => tasks[j].created_at >= tasks[k].created_at

\* Step predicate: the remote call of request r fails.  A rejected toggle
\* returns without having been carried out; for the other requests a
\* rejection is told apart from a success where it is the first of the run.
RemoteCallFails(r) ==
  /\ Settled(r)
  /\ \/ (r.kind = "toggle" /\ ~r.written)
     \/ (~writeFailed /\ writeFailed')

\* C29: when the remote update or delete of toggleTaskCompletion,
\* saveTaskEdit or deleteTask fails, the local collection is left exactly as
\* it was (and so are the remote rows and the edit modal).
C29_FailedWriteLeavesLocalUnchanged ==
  [][\A r \in reqs :
       (r.kind \in {"toggle", "edit", "delete"} /\ RemoteCallFails(r)) =>
          /\ tasks' = tasks
          /\ remote' = remote
          /\ UNCHANGED edit]_vars

\* An edit was typed and saved, the save failed: the modal is still open and
\* the record has the title it had.
C29_Witness ==
  /\ writeFailed
  /\ reqs = {}
  /\ nOps = 2
  /\ editModalVisible
  /\ editTitle = <<"c">>
  /\ Len(tasks) = 1
  /\ tasks[1].id = editingTask
  /\ tasks[1].title # <<"c">>
  /\ remote = tasks

\* A toggle of the id is in flight: issued and not yet returned.
ToggleInFlight(id) == \E r \in reqs : r.kind = "toggle" /\ r.id = id

\* No id was given to two records.
IdsUnique ==
  /\ \A j, k \in 1..Len(tasks) : j # k => tasks[j].id # tasks[k].id
  /\ \A j, k \in 1..Len(remote) : j # k => remote[j].id # remote[k].id
  /\ \A r \in reqs : r.kind = "create" =>
       (Absent(tasks, r.id) /\ Absent(remote, r.id) /\
        \A q \in reqs : (q.kind = "create" /\ q.id = r.id) => q = r)

\* C30: whenever no toggle of a task is in flight, the task's completed flag
\* in the local collection is its completed flag in the remote rows, however
\* many toggles were issued from whichever rendered rows and in whichever
\* order their responses came (here for tasks whose id is theirs alone).
C30_LocalAndRemoteCompletedAgree ==
  IdsUnique =>
    \A j \in 1..Len(tasks), k \in 1..Len(remote) :
      (tasks[j].id = remote[k].id /\ ~ToggleInFlight(tasks[j].id)) =>
         tasks[j].completed = remote[k].completed

\* Step predicate: the local collection keeps its records, each in its place,
\* and a record differs from what it was at most if its id is `id`, and then
\* at most in the fields `fields`.
OnlyFieldsOf(id, fields) ==
  /\ Len(tasks') = Len(tasks)
  /\ \A k \in 1..Len(tasks) :
       /\ tasks[k].id # id => tasks'[k] = tasks[k]
       /\ \A f \in DOMAIN tasks[k] \ fields : tasks'[k][f] = tasks[k][f]

\* C31: a toggle changes nothing in the local collection but the completed
\* flag of the records of its id, an edit nothing but their title and
\* deadline; neither adds, removes or moves a record (an edit of a task that
\* was deleted meanwhile changes nothing); a delete leaves the collection as
\* it is or without the records of its id, the others in their order, and
\* without them whenever no remote call has failed.
C31_MutationsChangeOnlyTheirTarget ==
  [][\A r \in reqs :
       /\ (r.kind = "toggle" /\ (Written(r) \/ Settled(r))) =>
            OnlyFieldsOf(r.id, {"completed"})
       /\ (r.kind = "edit" /\ Settled(r)) =>
            /\ OnlyFieldsOf(r.id, {"title", "deadline"})
            /\ Absent(tasks, r.id) => tasks' = tasks
       /\ (r.kind = "delete" /\ Settled(r)) =>
            /\ tasks' \in {tasks, OtherRecords(tasks, r.id)}
            /\ ~writeFailed' => tasks' = OtherRecords(tasks, r.id)]_vars

\* A task was created, its delete was issued, its edit was typed and saved;
\* both calls have succeeded, and the task is gone.
C31_Witness ==
  /\ ~writeFailed
  /\ nOps = 3
  /\ reqs = {}
  /\ tasks = << >>
  /\ remote = << >>
  /\ editingTask = NoTask
  /\ ~editModalVisible
  /\ editTitle = <<"c">>

\* The number of records of the id.
CountId(rows, id) == Cardinality({k \in 1..Len(rows) : rows[k].id = id})

\* C32: a record that is in the local collection stays in it until a delete
\* of its id succeeds: the records of an id get fewer only in the step in
\* which a delete of that id returns, the remote rows of the id gone.  No
\* response of a list request can take a record away, as no list request is
\* ever in flight.
C32_CreatedTaskStaysUntilDeleted ==
  /\ [](\A r \in reqs : r.kind # "list")
  /\ [][\A k \in 1..Len(tasks) :
          CountId(tasks', tasks[k].id) < CountId(tasks, tasks[k].id) =>
             \E r \in reqs :
               /\ r.kind = "delete"
               /\ r.id = tasks[k].id
               /\ Settled(r)
               /\ Absent(remote', r.id)]_vars

\* A created task has been edited, another call has failed, nothing is in
\* flight, and the task is in its place.
C32_Witness ==
  /\ writeFailed
  /\ nOps = 3
  /\ reqs = {}
  /\ Len(tasks) = 1
  /\ tasks[1].title = <<"c">>
  /\ Len(remote) = 1
  /\ remote[1].id = tasks[1].id

====
